---- MODULE Spec2Model ----
(***************************************************************************)
(* Model of src/transcription_app.py: class TranscriptionApp and the HTTP  *)
(* handlers that drive it.  The shared object state is the set of fields   *)
(* assigned in __init__; every request handler, the capture thread         *)
(* (_record_audio) and the processing thread (_process_audio) is a         *)
(* sequential process whose steps are the reads and writes of those        *)
(* fields, interleaved as CPython threads interleave them.                 *)
(*                                                                         *)
(* Strings are sequences of tokens (one-character strings, or a word such  *)
(* as "Speaker" or "None"), so that strip() and the f-string of            *)
(* format_transcript are computed and not assumed.                         *)
(***************************************************************************)
EXTENDS Integers, Sequences, FiniteSets, TLC

\* ------------------------------------------------------------------ bounds
\* start_transcription runs that get past line 182 (sessions, and so the
\* number of capture threads and of processing threads ever created)
MaxSessions == 2
\* chunks put on audio_queue over a run of one session
MaxChunks == 3
\* chunks put on audio_queue over a run of MaxSessions sessions
RestartChunks == 1
\* sample rate of the scaled-down device of the bounded runs: with
\* CHUNK = 1024 and RECORD_SECONDS = 30 it gives frames_per_chunk = 2
ModelRate == 100
\* entries of the transcripts enumerated by SpecExport
MaxEntries == 2
\* status_update events after which no further client connects
MaxEvents == 3

\* ------------------------------------------------------- program constants
\* self.CHUNK, self.RATE, self.RECORD_SECONDS as __init__ sets them
FrameSize == 1024
SampleRate == 16000
RecordSeconds == 30

\* request-serving threads of the web server
Handlers == {"h1", "h2"}
Threads == 1 .. MaxSessions
Chunks == 1 .. (MaxChunks + RestartChunks)

\* The bounded runs: which threads serve start and stop requests (handlers)
\* and which serve export, status and connect requests (clients), how many
\* sessions are started, how many chunks are captured, and the device's
\* sample rate.
\* One session with a longer stream of chunks, or a restart with a short one.
Pipeline ==
    [handlers |-> {"h1"}, clients |-> {}, sessions |-> 1, chunks |-> MaxChunks,
     rate |-> ModelRate]
Restart ==
    [handlers |-> {"h1"}, clients |-> {}, sessions |-> MaxSessions,
     chunks |-> RestartChunks, rate |-> ModelRate]
\* one session with clients connecting to the event channel
Subscribed == [Pipeline EXCEPT !.clients = {"h2"}]
\* one session on the device as __init__ configures it
Device ==
    [handlers |-> {"h1"}, clients |-> {}, sessions |-> 1, chunks |-> 1,
     rate |-> SampleRate]
\* export requests only
Reader ==
    [handlers |-> {}, clients |-> {"h1"}, sessions |-> 0, chunks |-> 0,
     rate |-> SampleRate]

\* None, for the fields that otherwise hold a positive number (session_id,
\* stream) and, as the empty token sequence, for an entry's speaker
None == 0
NoSpeaker == <<>>
NoChunk == [id |-> 0, by |-> 0, sess |-> 0, samples |-> 0]
NoEntry == [chunk |-> 0]
\* the snapshot a status request has not read yet
NoSnapshot == [is_recording |-> FALSE, session_id |-> None, transcript_count |-> 0]

\* ---------------------------------------------------------------- strings
Whitespace == {" ", "\t", "\n"}

RECURSIVE LStrip(_)
LStrip(s) ==
    IF s # <<>> /\ Head(s) \in Whitespace THEN LStrip(Tail(s)) ELSE s

RECURSIVE RStrip(_)
RStrip(s) ==
    IF s # <<>> /\ s[Len(s)] \in Whitespace
    THEN RStrip(SubSeq(s, 1, Len(s) - 1))
    ELSE s

\* str.strip()
Strip(s) == RStrip(LStrip(s))

\* str(x) as an f-string renders it: None becomes the word None
Str(x) == IF x = NoSpeaker THEN <<"None">> ELSE x

Digits == <<"0", "1", "2", "3", "4", "5", "6", "7", "8", "9">>
TwoDigits(n) == <<Digits[(n \div 10) + 1], Digits[(n % 10) + 1]>>

\* datetime.strftime('%H:%M:%S') of a time of day given in seconds
HMS(t) ==
    TwoDigits((t \div 3600) % 24) \o <<":">> \o TwoDigits((t \div 60) % 60)
        \o <<":">> \o TwoDigits(t % 60)

\* what result['text'] may hold: nothing, blanks only, padded or plain words
EngineTexts ==
    { <<>>, <<" ">>, <<" ", "hello", "\n">> }

\* wall-clock times of day (seconds) that datetime.now() yields in the model
Times == {3723}
\* the same, and the texts, for the transcripts enumerated by SpecExport
ExportTimes == {0, 3723, 86399}
ExportTexts == { <<"hello">>, <<"world">> }

RECURSIVE Decimal(_)
\* str(n) of a natural number
Decimal(n) ==
    IF n < 10 THEN <<Digits[n + 1]>> ELSE Decimal(n \div 10) \o <<Digits[(n % 10) + 1]>>

RECURSIVE Join(_)
\* '\n'.join(lines)
Join(lines) ==
    IF lines = <<>> THEN <<>>
    ELSE IF Len(lines) = 1 THEN lines[1]
    ELSE lines[1] \o <<"\n">> \o Join(Tail(lines))

RECURSIVE SplitLines(_)
\* str.split('\n')
SplitLines(s) ==
    IF \A k \in 1 .. Len(s) : s[k] # "\n" THEN <<s>>
    ELSE LET k == CHOOSE j \in 1 .. Len(s) :
                      s[j] = "\n" /\ \A m \in 1 .. (j - 1) : s[m] # "\n"
         IN  <<SubSeq(s, 1, k - 1)>> \o SplitLines(SubSeq(s, k + 1, Len(s)))

\* label a diarization track carries
TrackLabels == {"SPEAKER_00"}

VARIABLES
    \* --- fields of TranscriptionApp, module globals
    CHUNK, RATE, RECORD_SECONDS,
    is_recording, audio_queue, transcript_buffer, session_id,
    whisper_model, diarization_pipeline, DIARIZATION_AVAILABLE,
    stream,
    \* --- the audio streams PyAudio has handed out: "none", "open", "closed"
    streams,
    \* --- threads: request handlers, capture threads, processing threads
    hnd, rec, proc,
    \* --- the HTTP response sent last, and the file sent last by /api/export
    response, attachment,
    \* --- what socketio.emit has sent: the status_update events (how many,
    \*     and the payload of the last one) and the new_transcript payloads
    status_update, new_transcript,
    \* --- bookkeeping of the run (not program state)
    run, nsessions, chunk_seq, transcribed, appended, at_stop

vars ==
    << run, CHUNK, RATE, RECORD_SECONDS, is_recording, audio_queue,
       transcript_buffer, session_id, whisper_model, diarization_pipeline,
       DIARIZATION_AVAILABLE, stream, streams, hnd, rec, proc, response,
       attachment, status_update, new_transcript, nsessions, chunk_seq,
       transcribed, appended, at_stop >>

settings == << run, CHUNK, RATE, RECORD_SECONDS >>
models == << whisper_model, diarization_pipeline, DIARIZATION_AVAILABLE >>
emitted == << status_update, new_transcript >>

\* ---------------------------------------------------------- construction
IdleHandler == [pc |-> "idle", sess |-> 0]
NoResponse == [by |-> "none", op |-> "none", success |-> "none", sess |-> 0]
\* what the engines made of a chunk: text is "-" (not transcribed yet),
\* "blank", "raised" or "text"; diarization is one of DiarizationOutcomes
NotTranscribed == [text |-> "-", diarization |-> "not run"]
NoStatus == [n |-> 0, last |-> <<>>]
NoRec == [pc |-> "none", audio_buffer |-> 0, frame_count |-> 0]
NoProc == [pc |-> "none", audio_data |-> NoChunk, entry |-> NoEntry]

\* TranscriptionApp.__init__, every field but the audio settings, the model
\* handles, the transcript and the session id
InitFields ==
    /\ is_recording = FALSE
    /\ audio_queue = <<>>
    /\ stream = None
    /\ streams = [i \in Threads |-> "none"]
    /\ hnd = [h \in Handlers |-> IdleHandler]
    /\ rec = [i \in Threads |-> NoRec]
    /\ proc = [i \in Threads |-> NoProc]
    /\ response = NoResponse
    /\ attachment = <<>>
    /\ status_update = NoStatus
    /\ new_transcript = <<>>
    /\ nsessions = 0
    /\ chunk_seq = 0
    /\ transcribed = [c \in Chunks |-> NotTranscribed]
    /\ appended = <<>>
    /\ at_stop = [i \in Threads |-> {}]

\* the program as constructed, on the device and within the bounds of run r
InitRun(r) ==
    /\ InitFields
    /\ run = r
    /\ CHUNK = FrameSize
    /\ RATE = r.rate
    /\ RECORD_SECONDS = RecordSeconds
    /\ DIARIZATION_AVAILABLE = TRUE
    /\ whisper_model = FALSE
    /\ diarization_pipeline = FALSE
    /\ transcript_buffer = <<>>
    /\ session_id = None

Init == \E r \in {Pipeline, Restart} : InitRun(r)

\* ------------------------------------------------------------- get_status
get_status ==
    [ is_recording |-> is_recording,
      whisper_loaded |-> whisper_model,
      diarization_available |-> DIARIZATION_AVAILABLE,
      session_id |-> session_id,
      transcript_count |-> Len(transcript_buffer) ]

\* socketio.emit('status_update', self.get_status())
emit_status == [n |-> status_update.n + 1, last |-> get_status]

\* the handler returns jsonify({'success': ...}) ("true", "false"), or ends
\* in an unhandled exception ("error", an HTTP 500)
Return(h, o, r) ==
    /\ hnd' = [hnd EXCEPT ![h] = IdleHandler]
    /\ response' = [by |-> h, op |-> o, success |-> r, sess |-> hnd[h].sess]
Goto(h, l) ==
    /\ hnd' = [hnd EXCEPT ![h].pc = l]
    /\ UNCHANGED response

\* ------------------------------------------------- POST /api/start handler
\* variables a handler step never writes
HandlerFrame == << settings, audio_queue, diarization_pipeline,
                   DIARIZATION_AVAILABLE, attachment, new_transcript,
                   chunk_seq, transcribed, appended >>

\* sessions started, or about to be by a start request that has passed line 90
SessionsClaimed ==
    nsessions + Cardinality({g \in Handlers : hnd[g].pc = "s175"})

\* start_recording without the test of line 90
start_recording_untested(h) ==
    /\ h \in run.handlers
    /\ hnd[h].pc = "idle"
    /\ ~is_recording => SessionsClaimed < run.sessions
    /\ Goto(h, "s175")
    /\ UNCHANGED << HandlerFrame, is_recording, transcript_buffer, session_id,
                    whisper_model, stream, streams, rec, proc, status_update,
                    nsessions, at_stop >>

\* start_recording, lines 86-90 and 93: a start request is taken up and the
\* handler makes its own test of is_recording (the run has no further start
\* request on an idle application once its sessions have been started)
start_recording(h) ==
    /\ h \in run.handlers
    /\ hnd[h].pc = "idle"
    /\ ~is_recording => SessionsClaimed < run.sessions
    /\ IF is_recording THEN Return(h, "start", "false") ELSE Goto(h, "s175")
    /\ UNCHANGED << HandlerFrame, is_recording, transcript_buffer, session_id,
                    whisper_model, stream, streams, rec, proc, status_update,
                    nsessions, at_stop >>

\* start_transcription, lines 175-182: the second test of is_recording, then
\* load_models when no model is loaded.  load_models assigns
\* DIARIZATION_AVAILABLE at line 158 without declaring it global, so the name
\* is local to load_models and line 147 reads it unbound: the call always
\* raises UnboundLocalError after line 143 has stored the Whisper model, the
\* pipeline of line 151 is never stored, and the request ends in an error.
\* When start_transcription returns at line 176 the handler goes on to
\* line 92 and reports success.
start_transcription(h) ==
    /\ hnd[h].pc = "s175"
    /\ IF is_recording
       THEN /\ Return(h, "start", "true")
            /\ UNCHANGED << whisper_model, nsessions >>
       ELSE IF ~whisper_model
       THEN /\ whisper_model' = TRUE
            /\ Return(h, "start", "error")
            /\ UNCHANGED nsessions
       ELSE /\ nsessions' = nsessions + 1
            /\ hnd' = [hnd EXCEPT ![h] = [pc |-> "s184", sess |-> nsessions + 1]]
            /\ UNCHANGED << whisper_model, response >>
    /\ UNCHANGED << HandlerFrame, is_recording, transcript_buffer, session_id,
                    stream, streams, rec, proc, status_update, at_stop >>

\* line 184
start_set_recording(h) ==
    /\ hnd[h].pc = "s184"
    /\ is_recording' = TRUE
    /\ Goto(h, "s185")
    /\ UNCHANGED << HandlerFrame, transcript_buffer, session_id, whisper_model,
                    stream, streams, rec, proc, status_update, nsessions,
                    at_stop >>

\* int(time.time()) at a start: the second of the previous start or a later one
NowAfter(sid) ==
    IF sid = None THEN {1} ELSE {t \in {sid, sid + 1} : t <= run.sessions}

\* line 185
start_set_session(h) ==
    /\ hnd[h].pc = "s185"
    /\ \E t \in NowAfter(session_id) : session_id' = t
    /\ Goto(h, "s186")
    /\ UNCHANGED << HandlerFrame, is_recording, transcript_buffer,
                    whisper_model, stream, streams, rec, proc, status_update,
                    nsessions, at_stop >>

\* line 186
start_clear_buffer(h) ==
    /\ hnd[h].pc = "s186"
    /\ transcript_buffer' = <<>>
    /\ Goto(h, "s189")
    /\ UNCHANGED << HandlerFrame, is_recording, session_id, whisper_model,
                    stream, streams, rec, proc, status_update, nsessions,
                    at_stop >>

\* lines 189-196: the capture thread and the processing thread are started
start_threads(h) ==
    /\ hnd[h].pc = "s189"
    /\ rec' = [rec EXCEPT ![hnd[h].sess] = [NoRec EXCEPT !.pc = "open"]]
    /\ proc' = [proc EXCEPT ![hnd[h].sess] = [NoProc EXCEPT !.pc = "loop"]]
    /\ Goto(h, "s199")
    /\ UNCHANGED << HandlerFrame, is_recording, transcript_buffer, session_id,
                    whisper_model, stream, streams, status_update, nsessions,
                    at_stop >>

\* lines 199-200, then line 92 of the handler
start_emit(h) ==
    /\ hnd[h].pc = "s199"
    /\ status_update' = emit_status
    /\ Return(h, "start", "true")
    /\ UNCHANGED << HandlerFrame, is_recording, transcript_buffer, session_id,
                    whisper_model, stream, streams, rec, proc, nsessions,
                    at_stop >>

\* -------------------------------------------------- POST /api/stop handler
\* the chunks waiting on audio_queue
QueuedIds == {audio_queue[k].id : k \in 1 .. Len(audio_queue)}


\* stop_recording without the test of line 97
stop_recording_untested(h) ==
    /\ h \in run.handlers
    /\ hnd[h].pc = "idle"
    /\ Goto(h, "p204")
    /\ UNCHANGED << HandlerFrame, is_recording, transcript_buffer, session_id,
                    whisper_model, stream, streams, rec, proc, status_update,
                    nsessions, at_stop >>

\* stop_recording, lines 96-97 and 100: a stop request is taken up and the
\* handler makes its own test of is_recording
stop_recording(h) ==
    /\ h \in run.handlers
    /\ hnd[h].pc = "idle"
    /\ IF is_recording THEN Goto(h, "p204") ELSE Return(h, "stop", "false")
    /\ UNCHANGED << HandlerFrame, is_recording, transcript_buffer, session_id,
                    whisper_model, stream, streams, rec, proc, status_update,
                    nsessions, at_stop >>

\* stop_transcription, lines 204-208: the second test of is_recording (after
\* the return of line 205 the handler goes on to line 99 and reports
\* success), then the flag is cleared
stop_transcription(h) ==
    /\ hnd[h].pc = "p204"
    /\ IF is_recording
       THEN /\ is_recording' = FALSE
            /\ at_stop' = [i \in Threads |->
                             IF proc[i].pc \in {"none", "done"}
                             THEN at_stop[i]
                             ELSE at_stop[i] \cup QueuedIds]
            /\ Goto(h, "p211")
       ELSE /\ Return(h, "stop", "true")
            /\ UNCHANGED << is_recording, at_stop >>
    /\ UNCHANGED << HandlerFrame, transcript_buffer, session_id, whisper_model,
                    stream, streams, rec, proc, status_update, nsessions >>

\* lines 211-214: stop and close whatever stream self.stream names now
stop_close_stream(h) ==
    /\ hnd[h].pc = "p211"
    /\ IF stream # None
       THEN /\ streams' = [streams EXCEPT ![stream] = "closed"]
            /\ stream' = None
       ELSE UNCHANGED << stream, streams >>
    /\ Goto(h, "p217")
    /\ UNCHANGED << HandlerFrame, is_recording, transcript_buffer, session_id,
                    whisper_model, rec, proc, status_update, nsessions,
                    at_stop >>

\* lines 217-218, then line 99 of the handler
stop_emit(h) ==
    /\ hnd[h].pc = "p217"
    /\ status_update' = emit_status
    /\ Return(h, "stop", "true")
    /\ UNCHANGED << HandlerFrame, is_recording, transcript_buffer, session_id,
                    whisper_model, stream, streams, rec, proc, nsessions,
                    at_stop >>

\* ------------------------------------------------ capture: _record_audio
\* variables a capture step never writes
RecordFrame == << settings, transcript_buffer, session_id, models, hnd, proc,
                  response, attachment, emitted, nsessions, transcribed,
                  appended, at_stop >>

\* line 235
frames_per_chunk == (RATE * RECORD_SECONDS) \div CHUNK

\* lines 224-236: the device opens and self.stream names the new stream
record_open(i) ==
    /\ rec[i].pc = "open"
    /\ streams' = [streams EXCEPT ![i] = "open"]
    /\ stream' = i
    /\ rec' = [rec EXCEPT ![i].pc = "loop"]
    /\ UNCHANGED << RecordFrame, is_recording, audio_queue, chunk_seq >>

\* lines 224, 261-263: the device does not open
record_open_fails(i) ==
    /\ rec[i].pc = "open"
    /\ is_recording' = FALSE
    /\ rec' = [rec EXCEPT ![i].pc = "failed"]
    /\ UNCHANGED << RecordFrame, audio_queue, stream, streams, chunk_seq >>

\* chunks already put or about to be put
ChunksClaimed == chunk_seq + Cardinality({j \in Threads : rec[j].pc = "put"})

\* lines 238-245: the loop test holds and a frame is read from whatever
\* self.stream names now
record_read(i) ==
    /\ rec[i].pc = "loop"
    /\ is_recording
    /\ stream # None
    /\ streams[stream] = "open"
    /\ rec[i].frame_count + 1 >= frames_per_chunk => ChunksClaimed < run.chunks
    /\ rec' = [rec EXCEPT
                 ![i].audio_buffer = @ + 1,
                 ![i].frame_count = @ + 1,
                 ![i].pc = IF rec[i].frame_count + 1 >= frames_per_chunk
                           THEN "put" ELSE "loop"]
    /\ UNCHANGED << RecordFrame, is_recording, audio_queue, stream, streams,
                    chunk_seq >>

\* lines 238-240, 256-259: the loop test holds and the read raises
\* (self.stream is None or closed, or the device fails): the loop is left
record_read_fails(i) ==
    /\ rec[i].pc = "loop"
    /\ is_recording
    /\ rec' = [rec EXCEPT ![i].pc = "done"]
    /\ UNCHANGED << RecordFrame, is_recording, audio_queue, stream, streams,
                    chunk_seq >>

\* record_exit with line 238 reading "while self.is_recording or
\* self.stream": the loop is left only once the stream has been closed
record_exit_on_closed(i) ==
    /\ rec[i].pc = "loop"
    /\ ~is_recording
    /\ stream = None
    /\ rec' = [rec EXCEPT ![i].pc = "done"]
    /\ UNCHANGED << RecordFrame, is_recording, audio_queue, stream, streams,
                    chunk_seq >>

\* line 238: the loop test fails
record_exit(i) ==
    /\ rec[i].pc = "loop"
    /\ ~is_recording
    /\ rec' = [rec EXCEPT ![i].pc = "done"]
    /\ UNCHANGED << RecordFrame, is_recording, audio_queue, stream, streams,
                    chunk_seq >>

\* lines 247-254 (id, by and sess tell the chunks apart: the number of the
\* chunk, the capture thread that put it and the number of sessions started
\* when it was put; the program's array does not hold them)
record_put(i) ==
    /\ rec[i].pc = "put"
    /\ chunk_seq' = chunk_seq + 1
    /\ audio_queue' = Append(audio_queue,
                             [id |-> chunk_seq + 1, by |-> i,
                              sess |-> nsessions,
                              samples |-> rec[i].audio_buffer * CHUNK])
    /\ rec' = [rec EXCEPT ![i].audio_buffer = 0, ![i].frame_count = 0,
                          ![i].pc = "loop"]
    /\ UNCHANGED << RecordFrame, is_recording, stream, streams >>

\* --------------------------------------------- processing: _process_audio
\* variables a processing step never writes
ProcessFrame == << settings, is_recording, session_id, models, stream,
                   streams, hnd, rec, response, attachment, status_update,
                   nsessions, chunk_seq, at_stop >>

\* lines 269-273: the loop test holds (the queue is not empty) and get()
\* hands over the oldest chunk.  While is_recording holds and the queue is
\* empty, get(timeout=1.0) times out and the test is taken again, which
\* changes nothing.
process_get(i) ==
    /\ proc[i].pc = "loop"
    /\ audio_queue # <<>>
    /\ proc' = [proc EXCEPT ![i].pc = "transcribe",
                            ![i].audio_data = Head(audio_queue)]
    /\ audio_queue' = Tail(audio_queue)
    /\ UNCHANGED << ProcessFrame, transcript_buffer, new_transcript,
                    transcribed, appended >>

\* process_exit without the right operand of line 269: the thread leaves as
\* soon as is_recording is cleared
process_exit_undrained(i) ==
    /\ proc[i].pc = "loop"
    /\ ~is_recording
    /\ proc' = [proc EXCEPT ![i].pc = "done"]
    /\ UNCHANGED << ProcessFrame, audio_queue, transcript_buffer,
                    new_transcript, transcribed, appended >>

\* lines 269, 334: the loop test fails
process_exit(i) ==
    /\ proc[i].pc = "loop"
    /\ ~is_recording
    /\ audio_queue = <<>>
    /\ proc' = [proc EXCEPT ![i].pc = "done"]
    /\ UNCHANGED << ProcessFrame, audio_queue, transcript_buffer,
                    new_transcript, transcribed, appended >>

\* what the diarization step of lines 306-314 can come to: not run, raised
\* (caught at line 313), no track, or the label of the first track
DiarizationOutcomes ==
    IF DIARIZATION_AVAILABLE /\ diarization_pipeline
    THEN {"raised", "no track"} \cup TrackLabels
    ELSE {"not run"}

\* lines 298-314: the entry of a chunk whose text t is not blank (chunk and
\* sess tell which chunk the entry was made from and how many sessions had
\* been started when that chunk was put; the program's dict does not hold
\* them)
transcript_entry(c, now, t, d) ==
    [ chunk |-> c.id,
      sess |-> c.sess,
      timestamp |-> now,
      text |-> Strip(t),
      confidence |-> 0,
      speaker |-> IF d \in TrackLabels THEN <<"Speaker", " ", d>> ELSE NoSpeaker ]

\* process_transcribe with line 297 testing result['text'] unstripped
process_transcribe_unstripped(i) ==
    /\ proc[i].pc = "transcribe"
    /\ \E t \in EngineTexts, now \in Times, d \in DiarizationOutcomes :
         IF t # <<>>
         THEN /\ proc' = [proc EXCEPT
                            ![i].pc = "append",
                            ![i].entry = transcript_entry(proc[i].audio_data, now, t, d)]
              /\ transcribed' = [transcribed EXCEPT ![proc[i].audio_data.id] =
                                    [text |-> IF Strip(t) # <<>> THEN "text" ELSE "blank",
                                     diarization |-> d]]
         ELSE /\ proc' = [proc EXCEPT ![i].pc = "loop", ![i].audio_data = NoChunk]
              /\ transcribed' = [transcribed EXCEPT ![proc[i].audio_data.id].text = "blank"]
    /\ UNCHANGED << ProcessFrame, audio_queue, transcript_buffer,
                    new_transcript, appended >>

\* process_transcribe with the diarization call outside a try block: its
\* exception reaches line 330 and the entry is never built
process_transcribe_unguarded(i) ==
    /\ proc[i].pc = "transcribe"
    /\ \E t \in EngineTexts, now \in Times, d \in DiarizationOutcomes :
         IF Strip(t) # <<>> /\ d # "raised"
         THEN /\ proc' = [proc EXCEPT
                            ![i].pc = "append",
                            ![i].entry = transcript_entry(proc[i].audio_data, now, t, d)]
              /\ transcribed' = [transcribed EXCEPT ![proc[i].audio_data.id] =
                                    [text |-> "text", diarization |-> d]]
         ELSE /\ proc' = [proc EXCEPT ![i].pc = "loop", ![i].audio_data = NoChunk]
              /\ transcribed' = [transcribed EXCEPT ![proc[i].audio_data.id] =
                                    [text |-> IF Strip(t) # <<>> THEN "text" ELSE "blank",
                                     diarization |-> IF Strip(t) # <<>> THEN d ELSE "not run"]]
    /\ UNCHANGED << ProcessFrame, audio_queue, transcript_buffer,
                    new_transcript, appended >>

\* lines 278-314 when the engine returns: the chunk is written to a WAV file
\* and transcribed; a blank text ends the iteration (lines 297, 325-328)
process_transcribe(i) ==
    /\ proc[i].pc = "transcribe"
    /\ \E t \in EngineTexts, now \in Times, d \in DiarizationOutcomes :
         IF Strip(t) # <<>>
         THEN /\ proc' = [proc EXCEPT
                            ![i].pc = "append",
                            ![i].entry = transcript_entry(proc[i].audio_data, now, t, d)]
              /\ transcribed' = [transcribed EXCEPT ![proc[i].audio_data.id] =
                                    [text |-> "text", diarization |-> d]]
         ELSE /\ proc' = [proc EXCEPT ![i].pc = "loop", ![i].audio_data = NoChunk]
              /\ transcribed' = [transcribed EXCEPT ![proc[i].audio_data.id].text = "blank"]
    /\ UNCHANGED << ProcessFrame, audio_queue, transcript_buffer,
                    new_transcript, appended >>

\* process_transcribe_fails without the try block of lines 270-332: the
\* exception ends the thread
process_transcribe_fatal(i) ==
    /\ proc[i].pc = "transcribe"
    /\ proc' = [proc EXCEPT ![i].pc = "done", ![i].audio_data = NoChunk]
    /\ transcribed' = [transcribed EXCEPT ![proc[i].audio_data.id].text = "raised"]
    /\ UNCHANGED << ProcessFrame, audio_queue, transcript_buffer,
                    new_transcript, appended >>

\* lines 290, 330-332: the engine raises; the error is printed and the loop
\* goes on
process_transcribe_fails(i) ==
    /\ proc[i].pc = "transcribe"
    /\ proc' = [proc EXCEPT ![i].pc = "loop", ![i].audio_data = NoChunk]
    /\ transcribed' = [transcribed EXCEPT ![proc[i].audio_data.id].text = "raised"]
    /\ UNCHANGED << ProcessFrame, audio_queue, transcript_buffer,
                    new_transcript, appended >>

\* line 317: append to whatever list self.transcript_buffer names now
process_append(i) ==
    /\ proc[i].pc = "append"
    /\ transcript_buffer' = Append(transcript_buffer, proc[i].entry)
    /\ appended' = Append(appended, proc[i].entry.chunk)
    /\ proc' = [proc EXCEPT ![i].pc = "emit"]
    /\ UNCHANGED << ProcessFrame, audio_queue, new_transcript, transcribed >>

\* lines 320-328
process_emit(i) ==
    /\ proc[i].pc = "emit"
    /\ new_transcript' = Append(new_transcript, proc[i].entry)
    /\ proc' = [proc EXCEPT ![i].pc = "loop", ![i].audio_data = NoChunk,
                            ![i].entry = NoEntry]
    /\ UNCHANGED << ProcessFrame, audio_queue, transcript_buffer, transcribed,
                    appended >>

\* ------------------------------------------------- GET /api/export handler
\* line 354: entry.get('speaker', 'Speaker').  Every entry is built with the
\* key 'speaker' (line 302), so get() returns the stored value, None
\* included, and the default is never used.
entry_speaker(e) == Str(e.speaker)

\* format_transcript, lines 336-359, at wall-clock time now.  The date of the
\* "Generated" line is left as the token DATE; session_id is None or
\* "session_<n>".
format_transcript(now) ==
    IF transcript_buffer = <<>>
    THEN <<"No transcript data available.">>
    ELSE Join(
           << <<"Advanced Audio Transcript">>,
              [k \in 1 .. 50 |-> "="],
              <<"Generated: ", "DATE", " ">> \o HMS(now),
              <<"Session ID: ">> \o
                  (IF session_id = None THEN <<"None">>
                   ELSE <<"session_">> \o Decimal(session_id)),
              <<"Total Entries: ">> \o Decimal(Len(transcript_buffer)),
              <<>>,
              <<"--- TRANSCRIPT ---">>,
              <<>> >>
           \o [k \in 1 .. Len(transcript_buffer) |->
                 <<"[">> \o HMS(transcript_buffer[k].timestamp) \o <<"]", " ">>
                   \o entry_speaker(transcript_buffer[k]) \o <<":", " ">>
                   \o transcript_buffer[k].text])

\* export_transcript, lines 110-112: an export request is taken up and the
\* transcript is tested
export_transcript(h) ==
    /\ h \in run.clients
    /\ hnd[h].pc = "idle"
    /\ IF transcript_buffer = <<>>
       THEN Return(h, "export", "false")
       ELSE Goto(h, "e115")
    /\ UNCHANGED << HandlerFrame, is_recording, transcript_buffer, session_id,
                    whisper_model, stream, streams, rec, proc, status_update,
                    nsessions, at_stop >>

\* export_transcript, lines 115-125: the transcript is formatted, written to
\* a file and sent
export_send(h) ==
    /\ hnd[h].pc = "e115"
    /\ \E now \in ExportTimes : attachment' = format_transcript(now)
    /\ Return(h, "export", "true")
    /\ UNCHANGED << settings, audio_queue, diarization_pipeline,
                    DIARIZATION_AVAILABLE, new_transcript, chunk_seq,
                    transcribed, appended, is_recording, transcript_buffer,
                    session_id, whisper_model, stream, streams, rec, proc,
                    status_update, nsessions, at_stop >>

\* ------------------------------------------------- GET /api/status handler
\* status, lines 77-83: the dict is built key by key, each value read from
\* the object when its key is reached, and other threads run in between.
\* Lines 78-80: is_recording is read (whisper_loaded and
\* diarization_available are read with it).
status(h) ==
    /\ h \in run.clients
    /\ hnd[h].pc = "idle"
    /\ hnd' = [hnd EXCEPT ![h] =
                 [pc |-> "t81", sess |-> 0,
                  snap |-> [NoSnapshot EXCEPT !.is_recording = is_recording]]]
    /\ UNCHANGED << HandlerFrame, response, is_recording, transcript_buffer,
                    session_id, whisper_model, stream, streams, rec, proc,
                    status_update, nsessions, at_stop >>

\* line 81: session_id is read
status_session(h) ==
    /\ hnd[h].pc = "t81"
    /\ hnd' = [hnd EXCEPT ![h].pc = "t82", ![h].snap.session_id = session_id]
    /\ UNCHANGED << HandlerFrame, response, is_recording, transcript_buffer,
                    session_id, whisper_model, stream, streams, rec, proc,
                    status_update, nsessions, at_stop >>

\* lines 82-83: the length of the transcript is read and the dict is sent
status_count(h) ==
    /\ hnd[h].pc = "t82"
    /\ hnd' = [hnd EXCEPT ![h] = IdleHandler]
    /\ response' = [by |-> h, op |-> "status", success |-> "none", sess |-> 0,
                    body |-> [hnd[h].snap EXCEPT
                                !.transcript_count = Len(transcript_buffer)]]
    /\ UNCHANGED << HandlerFrame, is_recording, transcript_buffer, session_id,
                    whisper_model, stream, streams, rec, proc, status_update,
                    nsessions, at_stop >>

\* ------------------------------------------------ socket event 'connect'
\* handle_connect, lines 129-131: the status is emitted to the new client
handle_connect(h) ==
    /\ h \in run.clients
    /\ hnd[h].pc = "idle"
    /\ status_update.n < MaxEvents
    /\ status_update' = emit_status
    /\ UNCHANGED << HandlerFrame, hnd, response, is_recording,
                    transcript_buffer, session_id, whisper_model, stream,
                    streams, rec, proc, nsessions, at_stop >>

\* ------------------------------------------------------------ the program
Next ==
    \/ \E h \in Handlers :
         \/ start_recording(h)
         \/ start_transcription(h)
         \/ start_set_recording(h)
         \/ start_set_session(h)
         \/ start_clear_buffer(h)
         \/ start_threads(h)
         \/ start_emit(h)
         \/ stop_recording(h)
         \/ stop_transcription(h)
         \/ stop_close_stream(h)
         \/ stop_emit(h)
    \/ \E i \in Threads :
         \/ record_open(i)
         \/ record_open_fails(i)
         \/ record_read(i)
         \/ record_read_fails(i)
         \/ record_exit(i)
         \/ record_put(i)
         \/ process_get(i)
         \/ process_exit(i)
         \/ process_transcribe(i)
         \/ process_transcribe_fails(i)
         \/ process_append(i)
         \/ process_emit(i)

Spec == Init /\ [][Next]_vars

\* ---------------------------------------------------------------- fairness
\* the steps of one thread.  A handler's taking up a request is the
\* client's doing and is not among them.
HandlerStep(h) ==
    \/ start_transcription(h) \/ start_set_recording(h) \/ start_set_session(h)
    \/ start_clear_buffer(h) \/ start_threads(h) \/ start_emit(h)
    \/ stop_transcription(h) \/ stop_close_stream(h) \/ stop_emit(h)
RecordStep(i) ==
    \/ record_open(i) \/ record_open_fails(i) \/ record_read(i)
    \/ record_read_fails(i) \/ record_exit(i) \/ record_put(i)
ProcessStep(i) ==
    \/ process_get(i) \/ process_exit(i) \/ process_transcribe(i)
    \/ process_transcribe_fails(i) \/ process_append(i) \/ process_emit(i)

\* every thread that can run does run (the interpreter switches threads),
\* and every engine call returns
Fairness ==
    /\ \A h \in Handlers : WF_vars(HandlerStep(h))
    /\ \A i \in Threads : WF_vars(RecordStep(i)) /\ WF_vars(ProcessStep(i))

\* one session under fair scheduling
SpecFair == InitRun(Pipeline) /\ [][Next]_vars /\ Fairness

\* -------------------------------------------------------------- diarization
\* one session of a program whose model handles are in place: the Whisper
\* model of line 143 and the pipeline line 151 would store
InitDiar ==
    /\ InitFields
    /\ run = Pipeline
    /\ CHUNK = FrameSize
    /\ RATE = Pipeline.rate
    /\ RECORD_SECONDS = RecordSeconds
    /\ DIARIZATION_AVAILABLE = TRUE
    /\ whisper_model = TRUE
    /\ diarization_pipeline = TRUE
    /\ transcript_buffer = <<>>
    /\ session_id = None

SpecDiar == InitDiar /\ [][Next]_vars

\* --------------------------------------------------------------- exporting
\* the entries a transcript can hold: a stripped text, no speaker label
ExportEntries ==
    [ chunk : 1 .. MaxEntries, sess : {1}, timestamp : ExportTimes,
      text : ExportTexts, confidence : {0}, speaker : {NoSpeaker} ]

ExportTranscripts ==
    UNION { { b \in [1 .. n -> ExportEntries] : \A k \in 1 .. n : b[k].chunk = k }
            : n \in 0 .. MaxEntries }

\* a stopped session that left any of the transcripts above
InitExport ==
    /\ InitFields
    /\ run = Reader
    /\ CHUNK = FrameSize
    /\ RATE = SampleRate
    /\ RECORD_SECONDS = RecordSeconds
    /\ DIARIZATION_AVAILABLE = TRUE
    /\ whisper_model = TRUE
    /\ diarization_pipeline = FALSE
    /\ transcript_buffer \in ExportTranscripts
    /\ session_id = 1

NextExport == \E h \in Handlers : export_transcript(h) \/ export_send(h)

SpecExport == InitExport /\ [][NextExport]_vars

\* ------------------------------------------------------ subscribing clients
\* one session, clients connecting to the event channel, fair scheduling
NextSubscribe == Next \/ \E h \in Handlers : handle_connect(h)

SpecSubscribe == InitRun(Subscribed) /\ [][NextSubscribe]_vars /\ Fairness

\* ------------------------------------------------------- after a session
\* the chunks and the entry of the first session
Captured(c) ==
    [id |-> c, by |-> 1, sess |-> 1, samples |-> frames_per_chunk * CHUNK]
FirstEntry == transcript_entry(Captured(1), 3723, <<" ", "hello", "\n">>, "not run")

\* what the states below have in common: the first session has been
\* stopped, its first chunk was transcribed, appended and published, and its
\* capture thread has ended
AfterSession(captured) ==
    /\ CHUNK = FrameSize
    /\ RATE = ModelRate
    /\ RECORD_SECONDS = RecordSeconds
    /\ DIARIZATION_AVAILABLE = TRUE
    /\ whisper_model = TRUE
    /\ diarization_pipeline = FALSE
    /\ is_recording = FALSE
    /\ transcript_buffer = <<FirstEntry>>
    /\ session_id = 1
    /\ stream = None
    /\ streams = [i \in Threads |-> IF i = 1 THEN "closed" ELSE "none"]
    /\ hnd = [h \in Handlers |-> IdleHandler]
    /\ rec = [i \in Threads |-> IF i = 1 THEN [NoRec EXCEPT !.pc = "done"] ELSE NoRec]
    /\ response = [by |-> "h1", op |-> "stop", success |-> "true", sess |-> 0]
    /\ attachment = <<>>
    /\ status_update =
         [n |-> 2,
          last |-> [is_recording |-> FALSE, whisper_loaded |-> TRUE,
                    diarization_available |-> TRUE, session_id |-> 1,
                    transcript_count |-> 1]]
    /\ new_transcript = <<FirstEntry>>
    /\ nsessions = 1
    /\ chunk_seq = captured
    /\ transcribed = [c \in Chunks |->
                        IF c = 1 THEN [text |-> "text", diarization |-> "not run"]
                        ELSE NotTranscribed]
    /\ appended = <<1>>

\* A state the program reaches under Spec: the first session captured one
\* chunk and both its threads have ended.
Stopped ==
    /\ AfterSession(1)
    /\ audio_queue = <<>>
    /\ proc = [i \in Threads |-> IF i = 1 THEN [NoProc EXCEPT !.pc = "done"] ELSE NoProc]
    /\ at_stop = [i \in Threads |-> {}]

\* A state the program reaches under Spec: the first session captured
\* MaxChunks chunks and a stop has been answered while all but the first
\* wait on the queue; the processing thread is about to take its loop test.
Draining ==
    /\ AfterSession(MaxChunks)
    /\ audio_queue = [k \in 1 .. (MaxChunks - 1) |-> Captured(k + 1)]
    /\ proc = [i \in Threads |-> IF i = 1 THEN [NoProc EXCEPT !.pc = "loop"] ELSE NoProc]
    /\ at_stop = [i \in Threads |-> IF i = 1 THEN 2 .. MaxChunks ELSE {}]

\* ------------------------------------------- requests during a second start
\* after a stopped session: one thread serves start and stop, one serves
\* export and status; one more session, one more chunk
Overlap ==
    [handlers |-> {"h1"}, clients |-> {"h2"}, sessions |-> MaxSessions,
     chunks |-> RestartChunks + 1, rate |-> ModelRate]

InitOverlap == Stopped /\ run = Overlap

NextOverlap ==
    \/ Next
    \/ \E h \in Handlers :
         \/ export_transcript(h)
         \/ export_send(h)
         \/ status(h)
         \/ status_session(h)
         \/ status_count(h)

SpecOverlap == InitOverlap /\ [][NextOverlap]_vars

\* ------------------------------------------------ a start during the drain
\* the second session is started while the first is draining
Redrain ==
    [handlers |-> {"h1"}, clients |-> {}, sessions |-> MaxSessions,
     chunks |-> MaxChunks + RestartChunks, rate |-> ModelRate]

InitDrain == Draining /\ run = Redrain

SpecDrain == InitDrain /\ [][Next]_vars

\* ------------------------------------------------------ the shipped device
SpecDevice == InitRun(Device) /\ [][Next]_vars

\* ================================================================== claims
StartPcs == {"s175", "s184", "s185", "s186", "s189", "s199"}
StopPcs == {"p204", "p211", "p217"}

\* handler h takes up a request of kind o in this step: it leaves "idle" for
\* the body of that handler, or answers the request within the step
Taken(h, o, pcs) ==
    /\ hnd[h].pc = "idle"
    /\ \/ hnd'[h].pc \in pcs
       \/ response' # response /\ response'.by = h /\ response'.op = o

\* C1: a start request taken up while is_recording holds is answered
\* {success: false} at once, and that step changes neither the session id,
\* the transcript buffer nor the recording flag and starts no thread.
C1_StartWhileRecording ==
    [][\A h \in Handlers :
         (is_recording /\ Taken(h, "start", StartPcs)) =>
             /\ response' = [by |-> h, op |-> "start", success |-> "false", sess |-> 0]
             /\ hnd'[h].pc = "idle"
             /\ UNCHANGED << session_id, transcript_buffer, is_recording,
                             rec, proc, nsessions >>]_vars

\* a start request was refused while a session is recording
C1_Witness ==
    /\ is_recording
    /\ response.op = "start" /\ response.success = "false"
    /\ \E i \in Threads : rec[i].pc # "none" /\ proc[i].pc # "none"

\* C2: a stop request taken up while is_recording does not hold is answered
\* {success: false} at once, and that step changes neither the recording
\* flag, the session id, the transcript buffer, the chunk queue nor the audio
\* stream and emits no status_update.
C2_StopWhileIdle ==
    [][\A h \in Handlers :
         (~is_recording /\ Taken(h, "stop", StopPcs)) =>
             /\ response' = [by |-> h, op |-> "stop", success |-> "false", sess |-> 0]
             /\ hnd'[h].pc = "idle"
             /\ UNCHANGED << is_recording, session_id, transcript_buffer,
                             audio_queue, stream, streams, status_update >>]_vars

\* a stop request was refused on an idle session, before and after a session
C2_Witness ==
    /\ ~is_recording
    /\ response.op = "stop" /\ response.success = "false"
    /\ nsessions > 0

\* C3: once the processing thread of the latest session has terminated, and
\* until the next start, the chunk queue is empty and the session is not
\* recording.
C3_DrainedAfterStop ==
    \A i \in Threads :
        (proc[i].pc = "done" /\ i = nsessions) =>
            (audio_queue = <<>> /\ ~is_recording)

\* chunk c has been taken off the queue and is about to be handed to the engine
InFlight(c) ==
    \E j \in Threads : proc[j].pc = "transcribe" /\ proc[j].audio_data.id = c

\* a step of a stop handler
StopStep == \E h \in Handlers : hnd[h].pc \in StopPcs /\ hnd'[h] # hnd[h]

\* C4: stop does not clear the chunk queue; when a processing thread has
\* terminated, every chunk that was queued when a stop cleared the recording
\* flag during that thread's life has been taken off the queue; and a chunk
\* taken off the queue is handed to the transcription engine by the thread
\* that took it before that thread does anything else.
C4_NoLossOnStop ==
    /\ [](\A i \in Threads :
            proc[i].pc = "done" => at_stop[i] \cap QueuedIds = {})
    /\ [](\A c \in 1 .. chunk_seq :
            c \in QueuedIds \/ InFlight(c) \/ transcribed[c].text # "-")
    /\ [][StopStep \/ (\E h \in Handlers : Taken(h, "stop", StopPcs))
            => audio_queue' = audio_queue]_vars

\* a stop found chunks queued, and the processing thread drained them and
\* terminated
C4_Witness ==
    \E i \in Threads :
        /\ proc[i].pc = "done"
        /\ at_stop[i] # {}
        /\ \A c \in at_stop[i] : transcribed[c].text # "-"

\* C5: when the device of a session cannot be opened, the start request of
\* that session is not answered {success: true}, the session is not
\* recording when the open fails, and no processing thread of the session
\* runs afterwards.
C5_OpenFailure ==
    /\ [](\A i \in Threads :
            rec[i].pc = "failed" =>
                /\ ~(response.op = "start" /\ response.sess = i
                        /\ response.success = "true")
                /\ proc[i].pc \in {"none", "done"})
    /\ [][\A i \in Threads :
            (rec[i].pc = "open" /\ rec'[i].pc = "failed") => ~is_recording]_vars

\* C6: when a read fails while the session is recording (the capture loop
\* has ended with is_recording still set), the session eventually stops
\* recording and its processing thread terminates.
C6_ReadFailureEndsSession ==
    \A i \in Threads :
        (rec[i].pc = "done" /\ is_recording)
            ~> (~is_recording /\ proc[i].pc = "done")

\* the chunk numbers of a sequence of entries, and the chunk numbers 1 .. n
Ids(entries) == [k \in 1 .. Len(entries) |-> entries[k].chunk]
UpTo(n) == [k \in 1 .. n |-> k]

\* chunk c came back from the engine with text and its entry is no longer
\* waiting to be appended (to be emitted)
Pending(c, pcs) ==
    \E i \in Threads : proc[i].pc \in pcs /\ proc[i].entry.chunk = c
AppendedText(c) == transcribed[c].text = "text" /\ ~Pending(c, {"append"})
EmittedText(c) == transcribed[c].text = "text" /\ ~Pending(c, {"append", "emit"})

\* C7: within one session the transcript is exactly the chunks whose text is
\* not blank after strip(), in chunk order, each with its stripped text, and
\* so are the new_transcript events; a blank chunk leaves no entry and no
\* event.
C7_BlankChunksSkipped ==
    nsessions <= 1 =>
        /\ Ids(transcript_buffer) = SelectSeq(UpTo(chunk_seq), AppendedText)
        /\ Ids(new_transcript) = SelectSeq(UpTo(chunk_seq), EmittedText)
        /\ \A k \in 1 .. Len(transcript_buffer) :
             /\ transcript_buffer[k].text # <<>>
             /\ transcript_buffer[k].text = Strip(transcript_buffer[k].text)

\* three chunks, the second blank: entries for chunks 1 and 3, in that order
C7_Witness ==
    /\ transcribed[1].text = "text"
    /\ transcribed[2].text = "blank"
    /\ transcribed[3].text = "text"
    /\ Ids(transcript_buffer) = <<1, 3>>
    /\ Ids(new_transcript) = <<1, 3>>

\* C8: a chunk on which the engine raised leaves no entry and no event; the
\* step in which the engine raises does not end the processing thread; and
\* the thread ends only when is_recording is clear and the queue is empty,
\* every chunk put so far having been handed to the engine.
C8_EngineFailureIsolated ==
    /\ [](\A c \in Chunks :
            transcribed[c].text = "raised" =>
                /\ \A k \in 1 .. Len(appended) : appended[k] # c
                /\ \A k \in 1 .. Len(new_transcript) : new_transcript[k].chunk # c
                /\ ~Pending(c, {"append", "emit"}))
    /\ [][\A i \in Threads :
            proc[i].pc = "transcribe" => proc'[i].pc # "done"]_vars
    /\ [][\A i \in Threads :
            (proc[i].pc # "done" /\ proc'[i].pc = "done") =>
                /\ ~is_recording
                /\ audio_queue = <<>>
                /\ \A c \in 1 .. chunk_seq :
                     transcribed[c].text # "-" \/ InFlight(c)]_vars

\* the engine raised on chunk 1, chunk 2 was transcribed all the same, and
\* the thread then left its loop in the normal way
C8_Witness ==
    /\ transcribed[1].text = "raised"
    /\ transcribed[2].text = "text"
    /\ Ids(transcript_buffer) = <<2>>
    /\ \E i \in Threads : proc[i].pc = "done"

\* C9: within one session, every chunk that came back with text and on which
\* the diarization call raised has exactly one entry, without a speaker
\* label, and exactly one new_transcript event (or is about to get them).
C9_DiarizationFailureKeepsEntry ==
    nsessions <= 1 =>
        \A c \in Chunks :
            (transcribed[c].text = "text" /\ transcribed[c].diarization = "raised") =>
                \/ \E i \in Threads :
                     /\ proc[i].pc = "append"
                     /\ proc[i].entry.chunk = c
                     /\ proc[i].entry.speaker = NoSpeaker
                \/ /\ Cardinality({k \in 1 .. Len(transcript_buffer) :
                                     transcript_buffer[k].chunk = c}) = 1
                   /\ \A k \in 1 .. Len(transcript_buffer) :
                        transcript_buffer[k].chunk = c =>
                            transcript_buffer[k].speaker = NoSpeaker
                   /\ \/ Pending(c, {"emit"})
                      \/ Cardinality({k \in 1 .. Len(new_transcript) :
                                        new_transcript[k].chunk = c}) = 1

\* the diarization call raised on every chunk, and every chunk with text is
\* in the transcript, unlabelled, and was published
C9_Witness ==
    /\ \A c \in 1 .. 2 :
         transcribed[c].text = "text" /\ transcribed[c].diarization = "raised"
    /\ Ids(transcript_buffer) = <<1, 2>>
    /\ \A k \in 1 .. 2 : transcript_buffer[k].speaker = NoSpeaker
    /\ Ids(new_transcript) = <<1, 2>>

\* the lines of an exported file after the eight header lines
BodyLines(file) == SubSeq(SplitLines(file), 9, Len(SplitLines(file)))

\* C10: an exported file has one body line per entry, in transcript order,
\* and the line of an entry without a speaker label reads
\* "[HH:MM:SS] Speaker: <text>".
C10_ExportDefaultSpeaker ==
    (response.op = "export" /\ response.success = "true") =>
        /\ Len(BodyLines(attachment)) = Len(transcript_buffer)
        /\ \A k \in 1 .. Len(transcript_buffer) :
             transcript_buffer[k].speaker = NoSpeaker =>
                 BodyLines(attachment)[k] =
                     <<"[">> \o HMS(transcript_buffer[k].timestamp)
                         \o <<"]", " ", "Speaker", ":", " ">>
                         \o transcript_buffer[k].text

\* C11: an export request taken up while the transcript is empty is answered
\* {success: false} and sends no attachment; and whenever an attachment is
\* rendered, the transcript it is rendered from holds at least one entry.
C11_ExportNeverEmpty ==
    /\ [][\A h \in Handlers :
            (transcript_buffer = <<>> /\ Taken(h, "export", {"e115"})) =>
                /\ response' = [by |-> h, op |-> "export", success |-> "false",
                                sess |-> 0]
                /\ attachment' = attachment]_vars
    /\ [][attachment' # attachment => transcript_buffer # <<>>]_vars

\* C12: a status snapshot that reports is_recording = True reports the id
\* and the entry count of the session that set the flag: it reads session_id
\* only after that start has assigned it (line 185) and the length of the
\* transcript only after that start has cleared it (line 186).  (Under
\* SpecOverlap the flag is only ever set by the second session's start.)
C12_StatusSnapshot ==
    /\ [][\A h \in Handlers :
            (hnd[h].pc = "t81" /\ hnd'[h].pc = "t82" /\ hnd[h].snap.is_recording)
                => ~\E g \in Handlers : hnd[g].pc = "s185"]_vars
    /\ [][\A h \in Handlers :
            (hnd[h].pc = "t82" /\ hnd'[h].pc = "idle" /\ hnd[h].snap.is_recording)
                => ~\E g \in Handlers : hnd[g].pc \in {"s185", "s186"}]_vars

\* the recording state the last status_update event told the subscribers
\* (not recording, before any event)
Published == status_update.n > 0 /\ status_update.last.is_recording

\* C13: a client that connects is sent a status_update event carrying the
\* current status; and whenever the recording state differs from the one
\* last published, a status_update event that publishes it follows.
C13_StatusPublished ==
    /\ [][(\E h \in Handlers : handle_connect(h)) =>
            /\ status_update'.n = status_update.n + 1
            /\ status_update'.last = get_status]_vars
    /\ (is_recording # Published) ~> (is_recording = Published)

\* the entry made from chunk c has been published, or was never appended
NotAwaitingEmit(c) == ~Pending(c, {"emit"})

\* C14: the new_transcript events are the appended entries, each once, in
\* the order of the appends (but for the entries whose thread is between
\* its append and its emit).
C14_PublishedInAppendOrder ==
    Ids(new_transcript) = SelectSeq(appended, NotAwaitingEmit)

\* the session state of the specification: Recording while is_recording is
\* set, Stopping while it is clear and a processing thread has not ended
SessionState ==
    IF is_recording THEN "Recording"
    ELSE IF \E i \in Threads : proc[i].pc \notin {"none", "done"} THEN "Stopping"
    ELSE "Idle"

\* C15: the session state changes only from Idle to Recording, from
\* Recording to Stopping and from Stopping to Idle; and a start request taken
\* up during Stopping is answered {success: false} at once.
C15_StateMachine ==
    /\ [][SessionState' # SessionState =>
            << SessionState, SessionState' >> \in
                { <<"Idle", "Recording">>, <<"Recording", "Stopping">>,
                  <<"Stopping", "Idle">> }]_vars
    /\ [][\A h \in Handlers :
            (SessionState = "Stopping" /\ Taken(h, "start", StartPcs)) =>
                response' = [by |-> h, op |-> "start", success |-> "false",
                             sess |-> 0]]_vars

\* the capture (processing) threads that have been started and have not ended
AliveCapture == {i \in Threads : rec[i].pc \notin {"none", "done", "failed"}}
AliveProcessing == {i \in Threads : proc[i].pc \notin {"none", "done"}}

\* C16: at most one capture thread and at most one processing thread are
\* alive.
C16_SingleProducerConsumer ==
    /\ Cardinality(AliveCapture) <= 1
    /\ Cardinality(AliveProcessing) <= 1

\* the session whose entries transcript_buffer holds: the latest one, once
\* its start has cleared the buffer (line 186)
BufferSession ==
    IF \E h \in Handlers : hnd[h].pc \in {"s184", "s185", "s186"}
    THEN nsessions - 1
    ELSE nsessions

\* C17: the entries of the transcript are in strictly increasing chunk order
\* and none was made from a chunk that was put on the queue before the
\* transcript's session was started.
C17_EntriesOfSessionInOrder ==
    /\ \A j, k \in 1 .. Len(transcript_buffer) :
          j < k => transcript_buffer[j].chunk < transcript_buffer[k].chunk
    /\ \A k \in 1 .. Len(transcript_buffer) :
          transcript_buffer[k].sess >= BufferSession

\* C18: once the recording flag of a started session is clear (and, the run
\* having one session, no further start sets it), the capture thread and
\* the processing thread of the session both terminate.
C18_ThreadsTerminate ==
    \A i \in Threads :
        (~is_recording /\ rec[i].pc # "none")
            ~> (rec[i].pc \in {"done", "failed"} /\ proc[i].pc = "done")

\* a stop was answered, the capture loop was left, and the processing thread
\* emptied the queue and ended
C18_Witness ==
    /\ response.op = "stop" /\ response.success = "true"
    /\ ~is_recording
    /\ audio_queue = <<>>
    /\ chunk_seq >= 1
    /\ \A c \in 1 .. chunk_seq : transcribed[c].text # "-"
    /\ \E i \in Threads :
         rec[i].pc = "done" /\ proc[i].pc = "done" /\ streams[i] = "closed"

\* C19: every chunk put on the queue holds at least RECORD_SECONDS * RATE
\* samples (480000 on the configured device), and the step that puts a chunk
\* leaves the capture thread's buffer empty and its frame counter at zero.
C19_ChunkHoldsFullDuration ==
    /\ [](\A k \in 1 .. Len(audio_queue) :
            audio_queue[k].samples >= RECORD_SECONDS * RATE)
    /\ [][\A i \in Threads :
            (rec[i].pc = "put" /\ rec'[i].pc # "put") =>
                rec'[i].audio_buffer = 0 /\ rec'[i].frame_count = 0]_vars

\* C20: an entry appended to the transcript after a start has cleared it
\* was not made from a chunk that was put on the queue before that start.
C20_SessionsIsolated ==
    [][\A i \in Threads :
         (proc[i].pc = "append" /\ proc'[i].pc = "emit") =>
             proc[i].entry.sess >= BufferSession]_vars

\* C21: when the application is not recording, no stop request is being
\* served and a capture thread has terminated, the stream that thread opened
\* (if it opened one) has been closed.
C21_NoStreamLeak ==
    (~is_recording /\ \A h \in Handlers : hnd[h].pc \notin StopPcs) =>
        \A i \in Threads :
            rec[i].pc \in {"done", "failed"} => streams[i] # "open"

====
